---- MODULE Spec2Model ----
(***************************************************************************)
(* Payment-intent state machine and webhook delivery engine of the         *)
(* CrossMeter API (app/services/payment_intent_service.py and              *)
(* app/services/webhook_service.py).                                       *)
(*                                                                         *)
(* Granularity.  The handlers are coroutines on one event loop.  The       *)
(* database client is synchronous, so a handler runs without interruption  *)
(* until it awaits real I/O; the only such await that is followed by a     *)
(* write is the HTTP POST of _attempt_webhook_delivery.  A handler is      *)
(* therefore modelled as the step that runs it up to the POST (or to its   *)
(* return) and the step DeliveryResponse that resumes it when the HTTP     *)
(* response, or the transport error, arrives.  A handler suspended at the  *)
(* POST is an element of the bag `tasks`.                                  *)
(***************************************************************************)
EXTENDS Integers, Sequences, FiniteSets, Bags, TLC

VARIABLES
    intents,     \* table payment_intents: intent_id -> row
    events,      \* table webhook_events: id -> row
    event_seq,   \* number of webhook_events rows inserted so far (id generator)
    tasks,       \* bag of handlers suspended at the HTTP POST
    http_posts,  \* event id -> number of HTTP POSTs issued for it
    now,         \* datetime.utcnow(), in seconds
    settings,    \* the configuration loaded at start-up (app.core.config.settings)
    response,    \* the last HTTP response of the payment-intent endpoints
    insert_faults,  \* how many statements on webhook_events the database may still reject
    call,        \* a service method called directly: its arguments and, once it
                 \* returned, its result
    subscriptions   \* table subscriptions: subscription_id -> row

vars == <<intents, events, event_seq, tasks, http_posts, now, settings, response,
          insert_faults, call, subscriptions>>

----------------------------------------------------------------------------
(* Bounds of the model *)

\* the whole system (Spec)
MaxIntents == 1
MaxEvents == 3
MaxTasks == 2
MaxTime == 1
\* the delivery engine on its own (WebhookSpec)
MaxHookEvents == 1
MaxHookTasks == 3
MaxHookTime == 2
\* the retry schedule on its own (BackoffSpec)
MaxBackoffAttempts == 13
MaxBackoffTime == 2
\* the payment-intent endpoints (ApiSpec)
MaxApiIntents == 1
MaxApiEvents == 2
MaxApiTasks == 1
\* the payment-intent endpoints over a database that rejects inserts (FaultSpec)
MaxFaultIntents == 1
MaxFaultEvents == 1
MaxFaultTasks == 1
MaxInsertFaults == 2
\* the delivery engine called directly (CallSpec)
MaxCallEvents == 1
MaxCallTasks == 2
MaxCallTime == 1
\* the delivery engine with interrupted calls (PollSpec)
MaxPollEvents == 1
MaxPollTasks == 3

MaxRetryIntents == 1
MaxRetryEvents == 2
MaxRetryTasks == 1
MaxRetryFaults == 1

MaxStoreIntents == 1
MaxStoreEvents == 2
MaxStoreTasks == 1
MaxCleanupDays == 1

MaxEncoderIntents == 1
MaxEncoderEvents == 2
MaxEncoderTasks == 1
MaxWalletDigits == 66

MaxFetchIntents == 1
MaxFetchEvents == 3
MaxFetchTasks == 1

MaxSubscriptions == 2

MaxPromotionIntents == 1
MaxPromotionEvents == 3
MaxPromotionTasks == 1
\* the router functions on their own (RouterSpec)
MaxAmountRoot == 20
MaxRecipients == 2

(* Program constants *)

webhook_retry_attempts == 3
webhook_retry_delay_seconds == 2
MaxRetryDelay == 3600
SecondsPerDay == 86400

None == "none"

(* An Optional[PaymentIntentResponse] is a set: empty for None, else the   *)
(* one response.                                                           *)
Nothing == {}
Some(x) == {x}
The(opt) == CHOOSE x \in opt : TRUE
NoResponse == -1
NoFee == -1

TxHashes == {"0xaa", "0xbb"}

(* The JSON bodies posted to the two transaction-report endpoints: the     *)
(* tx_hash and a declared outcome.                                         *)
TxBodies == [tx_hash : {"0xaa"}, status : {"settled", "failed"}]

(* Parsing a body as TransactionHashUpdate: the schema has the one field   *)
(* tx_hash and pydantic drops the fields it does not declare.              *)
TransactionHashUpdate(body) == [tx_hash |-> body.tx_hash]
RetryAttemptsSettings == 1..webhook_retry_attempts

----------------------------------------------------------------------------
(* Chain registry *)

CHAIN_CONFIGS ==
    [c \in {1, 8453, 84532, 10, 42161, 137} |->
        [router_address |-> c,
         bridge_fee_bps |-> CASE c = 1 -> 5 [] c = 8453 -> 3 [] c = 84532 -> 5
                              [] c = 10 -> 4 [] c = 42161 -> 3 [] c = 137 -> 6]]

get_supported_chains == DOMAIN CHAIN_CONFIGS

(* validate_chain_support accepting a pair whose source chain is in the    *)
(* registry, whatever the destination                                      *)
validate_chain_support_source_only(src_chain_id, dest_chain_id) ==
    src_chain_id \in get_supported_chains

validate_chain_support(src_chain_id, dest_chain_id) ==
    src_chain_id \in get_supported_chains /\ dest_chain_id \in get_supported_chains

(* calculate_bridge_fee rounding the fee up instead of down *)
calculate_bridge_fee_rounding_up(amount, src_chain_id) ==
    IF src_chain_id \notin DOMAIN CHAIN_CONFIGS THEN 0
    ELSE (amount * CHAIN_CONFIGS[src_chain_id].bridge_fee_bps + 9999) \div 10000

calculate_bridge_fee(amount, src_chain_id) ==
    IF src_chain_id \notin DOMAIN CHAIN_CONFIGS THEN 0
    ELSE (amount * CHAIN_CONFIGS[src_chain_id].bridge_fee_bps) \div 10000

PaymentType == {"simple", "bridge", "batch", "subscription"}

(* select_optimal_function following the requested payment type *)
select_optimal_function_by_payment_type(src_chain_id, dest_chain_id, payment_type, recipients_count) ==
    IF recipients_count > 1 \/ payment_type = "batch" THEN "batchPayment"
    ELSE IF src_chain_id # dest_chain_id \/ payment_type = "bridge" THEN "bridgePayment"
    ELSE "createPayment"

(* payment_type is accepted and not read *)
select_optimal_function(src_chain_id, dest_chain_id, payment_type, recipients_count) ==
    IF recipients_count > 1 THEN "batchPayment"
    ELSE IF src_chain_id # dest_chain_id THEN "bridgePayment"
    ELSE "createPayment"

(* RouterService_generate_payment_calldata charging the bridge fee on a    *)
(* same-chain payment too                                                  *)
RouterService_generate_payment_calldata_always_charging(vendor_wallet, amount, src_chain_id, dest_chain_id, intent_id, payment_type) ==
    IF src_chain_id \notin DOMAIN CHAIN_CONFIGS THEN Nothing
    ELSE
    LET function_name == select_optimal_function(src_chain_id, dest_chain_id,
                                                 payment_type, 1)
        bridge_fee == calculate_bridge_fee(amount, src_chain_id)
    IN Some(
       [address |-> CHAIN_CONFIGS[src_chain_id].router_address,
        chain_id |-> src_chain_id,
        function |-> function_name,
        calldata |-> IF function_name = "createPayment"
                     THEN <<"0xa9059cbb", vendor_wallet, amount, src_chain_id,
                            dest_chain_id, intent_id>>
                     ELSE <<"0x23b872dd", vendor_wallet, amount, src_chain_id,
                            dest_chain_id, "0x0", intent_id>>,
        bridge_fee |-> bridge_fee,
        estimated_cost |-> [bridge_fee_usdc |-> bridge_fee,
                            total_amount_usdc |-> amount + bridge_fee]])

(* RouterService.generate_payment_calldata: Nothing stands for the         *)
(* ValueError of an unsupported source chain.  The calldata is kept as the *)
(* sequence of its segments: the selector and one segment per parameter,   *)
(* in declaration order.                                                   *)
RouterService_generate_payment_calldata(vendor_wallet, amount, src_chain_id, dest_chain_id, intent_id, payment_type) ==
    IF src_chain_id \notin DOMAIN CHAIN_CONFIGS THEN Nothing
    ELSE
    LET function_name == select_optimal_function(src_chain_id, dest_chain_id,
                                                 payment_type, 1)
        bridge_fee == IF src_chain_id # dest_chain_id
                      THEN calculate_bridge_fee(amount, src_chain_id) ELSE 0
    IN Some(
       [address |-> CHAIN_CONFIGS[src_chain_id].router_address,
        chain_id |-> src_chain_id,
        function |-> function_name,
        calldata |-> IF function_name = "createPayment"
                     THEN <<"0xa9059cbb", vendor_wallet, amount, src_chain_id,
                            dest_chain_id, intent_id>>
                     ELSE <<"0x23b872dd", vendor_wallet, amount, src_chain_id,
                            dest_chain_id, "0x0", intent_id>>,
        bridge_fee |-> bridge_fee,
        estimated_cost |-> [bridge_fee_usdc |-> bridge_fee,
                            total_amount_usdc |-> amount + bridge_fee]])

(* The call of create_payment_intent: the payment type is left at its      *)
(* default and the chains have been validated.                             *)
generate_payment_calldata(vendor_wallet, amount, src_chain_id, dest_chain_id, intent_id) ==
    The(RouterService_generate_payment_calldata(vendor_wallet, amount, src_chain_id,
                                                dest_chain_id, intent_id, "simple"))

----------------------------------------------------------------------------
(* ABI encoding: RouterContractABI and the two encoders of RouterService.   *)
(* A Python string is the sequence of its characters.                      *)

Repeat(c, n) == [i \in 1..n |-> c]

HexDigits ==
    <<"0", "1", "2", "3", "4", "5", "6", "7", "8", "9", "a", "b", "c", "d", "e", "f">>

(* str.lower *)
lower(str) ==
    [i \in DOMAIN str |->
        CASE str[i] = "A" -> "a" [] str[i] = "B" -> "b" [] str[i] = "C" -> "c"
          [] str[i] = "D" -> "d" [] str[i] = "E" -> "e" [] str[i] = "F" -> "f"
          [] OTHER -> str[i]]

(* str.startswith('0x') *)
startswith_0x(str) == Len(str) >= 2 /\ str[1] = "0" /\ str[2] = "x"

(* str.zfill: zeros on the left up to the width, nothing for a string that *)
(* is already as long (no string here starts with a sign)                  *)
zfill(str, width) ==
    IF Len(str) >= width THEN str ELSE Repeat("0", width - Len(str)) \o str

(* format(value, 'x') of a value >= 0 *)
RECURSIVE hex(_)
hex(value) ==
    IF value < 16 THEN <<HexDigits[value + 1]>>
    ELSE hex(value \div 16) \o <<HexDigits[(value % 16) + 1]>>

(* f"{value:064x}": the sign counts in the width *)
format_064x(value) ==
    IF value < 0 THEN <<"-">> \o zfill(hex(0 - value), 63) ELSE zfill(hex(value), 64)

(* hashlib.sha256(...).hexdigest(): 64 hex digits that are a function of    *)
(* the data; the digits themselves are not computed here                   *)
sha256_hexdigest(data) ==
    [i \in 1..64 |-> HexDigits[((Len(data) + i) % 16) + 1]]

encode_address(address) ==
    LET prefixed == IF startswith_0x(address) THEN address ELSE <<"0", "x">> \o address
    IN zfill(lower(SubSeq(prefixed, 3, Len(prefixed))), 64)

encode_uint256(value) == format_064x(value)

encode_uint32(value) == format_064x(value)

encode_bytes32(value) ==
    LET stripped == IF startswith_0x(value) THEN SubSeq(value, 3, Len(value)) ELSE value
    IN IF Len(stripped) = 64 THEN lower(stripped) ELSE sha256_hexdigest(stripped)

encode_create_payment(recipient, amount, src_chain_id, dest_chain_id, payment_id) ==
    <<"0", "x", "a", "9", "0", "5", "9", "c", "b", "b">>
       \o encode_address(recipient) \o encode_uint256(amount)
       \o encode_uint32(src_chain_id) \o encode_uint32(dest_chain_id)
       \o encode_bytes32(payment_id)

encode_bridge_payment(recipient, amount, src_chain_id, dest_chain_id, bridge_address, payment_id) ==
    <<"0", "x", "2", "3", "b", "8", "7", "2", "d", "d">>
       \o encode_address(recipient) \o encode_uint256(amount)
       \o encode_uint32(src_chain_id) \o encode_uint32(dest_chain_id)
       \o encode_address(bridge_address) \o encode_bytes32(payment_id)

(* RouterService.generate_payment_calldata, its calldata as the hex string *)
(* it is: Nothing stands for the ValueError of an unsupported source       *)
(* chain.  No chain configuration has a bridge_address, so a call without  *)
(* one encodes "0x0".                                                      *)
generate_calldata_hex(vendor_wallet, amount, src_chain_id, dest_chain_id, payment_intent_id, bridge_address) ==
    IF src_chain_id \notin DOMAIN CHAIN_CONFIGS THEN Nothing
    ELSE
    LET function_name == select_optimal_function(src_chain_id, dest_chain_id, "simple", 1)
    IN Some(
       [address |-> CHAIN_CONFIGS[src_chain_id].router_address,
        function |-> function_name,
        calldata |-> IF function_name = "createPayment"
                     THEN encode_create_payment(vendor_wallet, amount, src_chain_id,
                                                dest_chain_id, payment_intent_id)
                     ELSE encode_bridge_payment(
                              vendor_wallet, amount, src_chain_id, dest_chain_id,
                              IF bridge_address = Nothing THEN <<"0", "x", "0">>
                              ELSE The(bridge_address),
                              payment_intent_id)])

----------------------------------------------------------------------------
(* Table vendors: owned by the vendor CRUD service, read-only here *)

Vendors ==
    [v \in {"v_hook", "v_plain"} |->
        [wallet_address |-> IF v = "v_hook" THEN "0xw1" ELSE "0xw2",
         enabled_source_chains |-> IF v = "v_hook" THEN {8453, 84532} ELSE {1},
         webhook_url |-> IF v = "v_hook" THEN "https://v_hook/hook" ELSE None]]

(* Table products: owned by the product CRUD service, read-only here *)
Products ==
    [p \in {"p_abc", "p_plain"} |->
        [vendor_id |-> IF p = "p_abc" THEN "v_hook" ELSE "v_plain"]]

(* A PaymentIntentCreate body *)
PaymentIntentCreate(vendor_id, product_id, src_chain_id, dest_chain_id) ==
    [vendor_id |-> vendor_id, product_id |-> product_id,
     src_chain_id |-> src_chain_id, dest_chain_id |-> dest_chain_id,
     amount_usdc_minor |-> 990000]

(* The create requests the model submits: a cross-chain and a same-chain   *)
(* request of the vendor with a webhook URL, one of the vendor without,    *)
(* one per validation failure, and one that names a product that does not  *)
(* exist.                                                                  *)
CreateRequests ==
    { PaymentIntentCreate("v_hook", "p_abc", 84532, 8453),
      PaymentIntentCreate("v_hook", "p_abc", 8453, 8453),
      PaymentIntentCreate("v_plain", "p_plain", 1, 1),
      PaymentIntentCreate("v_hook", "p_abc", 999, 8453),
      PaymentIntentCreate("v_hook", "p_abc", 84532, 999),
      PaymentIntentCreate("v_none", "p_abc", 84532, 8453),
      PaymentIntentCreate("v_hook", "p_abc", 1, 8453),
      PaymentIntentCreate("v_plain", "p_missing", 1, 1) }

----------------------------------------------------------------------------
(* Webhook delivery engine: helpers *)

Pow2(n) == IF n <= 0 THEN 1 ELSE 2 ^ n

Min(a, b) == IF a <= b THEN a ELSE b

(* RetryDelay with the exponent off by one: base_delay * 2 ** attempts *)
RetryDelayExponentOffByOne(attempts) ==
    Min(webhook_retry_delay_seconds * Pow2(attempts), MaxRetryDelay)

(* delay_seconds of _schedule_retry: base_delay * 2 ** (attempts - 1),     *)
(* capped at one hour; attempts = 0 gives 2 ** -1 = 0.5, exact for the     *)
(* even base delay of the configuration.                                   *)
RetryDelay(attempts) ==
    IF attempts = 0 THEN Min(webhook_retry_delay_seconds \div 2, MaxRetryDelay)
    ELSE Min(webhook_retry_delay_seconds * Pow2(attempts - 1), MaxRetryDelay)

schedule_retry(evs, e, t) ==
    IF e \notin DOMAIN evs THEN evs
    ELSE [evs EXCEPT ![e].next_retry_at = t + RetryDelay(evs[e].attempts)]

mark_webhook_expired(evs, e) ==
    IF e \notin DOMAIN evs THEN evs
    ELSE [evs EXCEPT ![e].status = "expired"]

(* The head of _attempt_webhook_delivery, up to the POST: what it decides *)
AttemptDecision(evs, e) ==
    IF e \notin DOMAIN evs THEN "missing"
    ELSE IF evs[e].attempts >= evs[e].max_attempts THEN "expired"
    ELSE "post"

(* RecordAttempt incrementing the stored counter instead of writing the    *)
(* value read before the POST plus one.                                    *)
RecordAttemptStoredIncrement(evs, e, current_attempts, outcome) ==
    IF e \notin DOMAIN evs THEN evs
    ELSE [evs EXCEPT ![e] =
            [@ EXCEPT !.attempts = @ + 1,
                      !.response_status = CASE outcome = "2xx" -> 200
                                            [] outcome = "non2xx" -> 500
                                            [] OTHER -> 0,
                      !.status = IF outcome = "2xx" THEN "sent" ELSE "failed"]]

(* The tail of _attempt_webhook_delivery: the update after the POST        *)
(* returned or raised; current_attempts was read before the POST.          *)
RecordAttempt(evs, e, current_attempts, outcome) ==
    IF e \notin DOMAIN evs THEN evs
    ELSE [evs EXCEPT ![e] =
            [@ EXCEPT !.attempts = current_attempts + 1,
                      !.response_status = CASE outcome = "2xx" -> 200
                                            [] outcome = "non2xx" -> 500
                                            [] OTHER -> 0,
                      !.status = IF outcome = "2xx" THEN "sent" ELSE "failed"]]

(* An attempt that returned False without a POST, followed by the          *)
(* _schedule_retry of its caller.                                          *)
SkipAttempt(evs, e, t) ==
    IF AttemptDecision(evs, e) = "expired"
    THEN schedule_retry(mark_webhook_expired(evs, e), e, t)
    ELSE evs

(* PendingDue selecting the events whose last attempt failed *)
PendingDueFailedOnly(evs, t) ==
    {e \in DOMAIN evs : evs[e].status = "failed" /\ evs[e].next_retry_at <= t}

(* PendingDue without the filter on the status *)
PendingDueAnyStatus(evs, t) ==
    {e \in DOMAIN evs : evs[e].next_retry_at <= t}

(* The query of process_pending_webhooks *)
PendingDue(evs, t) ==
    {e \in DOMAIN evs : evs[e].status = "pending" /\ evs[e].next_retry_at <= t}

(* A handler suspended at the POST for event e: which handler it is, the   *)
(* attempts it read before the POST, for the sweep the selected events it  *)
(* has not reached yet and its processed_count so far, and the value the   *)
(* handler returns when it resumes (a local of the suspended coroutine);   *)
(* body is the JSON body of the POST in flight.                            *)
Task(op, intent_id, e, body, current_attempts, rest, processed_count, result) ==
    [op |-> op, intent_id |-> intent_id, event |-> e, body |-> body,
     current_attempts |-> current_attempts, rest |-> rest,
     processed_count |-> processed_count, result |-> result]

(* A direct call of a service method: the method, its arguments and its    *)
(* result (Nothing while it has not returned)                              *)
ServiceCall(method, args, result) ==
    [method |-> method, args |-> args, result |-> result]

(* No service method has been called directly *)
NoCall == ServiceCall("none", << >>, Nothing)

(* An HTTP response of the payment-intent endpoints: which endpoint, the   *)
(* status code and the body (a PaymentIntentResponse, if any)              *)
HTTPResponse(op, status_code, body) ==
    [op |-> op, status_code |-> status_code, body |-> body]

(* No request has been answered yet *)
NoHTTPResponse == HTTPResponse("none", 0, Nothing)

----------------------------------------------------------------------------
Init ==
    /\ intents = << >>
    /\ events = << >>
    /\ event_seq = 0
    /\ tasks = EmptyBag
    /\ http_posts = << >>
    /\ now = 0
    /\ settings = [webhook_retry_attempts |-> webhook_retry_attempts]
    /\ response = NoHTTPResponse
    /\ subscriptions = << >>
    /\ call = NoCall
    /\ insert_faults = 0

(* datetime.isoformat and its inverse, the parse of a datetime field by    *)
(* pydantic: a time t and the string that denotes it                       *)
isoformat(t) == [isoformat |-> t]

fromisoformat(str) == str.isoformat

(* The WebhookPayload send_webhook builds from the event type, the vendor, *)
(* the time and the payload data, as the dictionary of its fields          *)
(* (model_dump)                                                            *)
WebhookPayload(event_type, vendor_id, timestamp, payload_data) ==
    [event_type |-> event_type,
     vendor_id |-> vendor_id,
     timestamp |-> timestamp,
     intent_id |-> payload_data.intent_id,
     src_tx_hash |-> payload_data.src_tx_hash,
     dest_tx_hash |-> payload_data.dest_tx_hash]

(* _serialize_payload: the datetime becomes its ISO string *)
serialize_payload(payload) == [payload EXCEPT !.timestamp = isoformat(@)]

(* The WebhookPayload built from a stored payload: the ISO string is       *)
(* parsed back                                                             *)
parse_payload(payload_dict) == [payload_dict EXCEPT !.timestamp = fromisoformat(@)]

(* sweep_body with the transaction hashes read from the payment intent as  *)
(* it is now                                                               *)
sweep_body_from_live_intent(evs, e) ==
    LET stored == parse_payload(evs[e].payload)
        live == IF stored.intent_id \in DOMAIN intents
                THEN [stored EXCEPT !.src_tx_hash = intents[stored.intent_id].src_tx_hash,
                                    !.dest_tx_hash = intents[stored.intent_id].dest_tx_hash]
                ELSE stored
    IN serialize_payload(live)

(* The body process_pending_webhooks posts for event e: the stored payload *)
(* parsed as a WebhookPayload and serialized again by the attempt          *)
sweep_body(evs, e) == serialize_payload(parse_payload(evs[e].payload))

(* _create_webhook_event with the event scheduled one retry delay ahead    *)
create_webhook_event_scheduled_ahead(vendor_id, event_type, payload, webhook_url) ==
    [vendor_id |-> vendor_id,
     event_type |-> event_type,
     payload |-> payload,
     webhook_url |-> webhook_url,
     status |-> "pending",
     attempts |-> 0,
     max_attempts |-> settings.webhook_retry_attempts,
     next_retry_at |-> now + webhook_retry_delay_seconds,
     created_at |-> now,
     response_status |-> NoResponse]

(* The row _create_webhook_event inserts *)
create_webhook_event(vendor_id, event_type, payload, webhook_url) ==
    [vendor_id |-> vendor_id,
     event_type |-> event_type,
     payload |-> payload,
     webhook_url |-> webhook_url,
     status |-> "pending",
     attempts |-> 0,
     max_attempts |-> settings.webhook_retry_attempts,
     next_retry_at |-> now,
     created_at |-> now,
     response_status |-> NoResponse]

(* send_webhook, called from the handler `op` of intent `intent_id` that   *)
(* will return `result`, run up to the POST of the inline push (or to its  *)
(* return).  While the database has faults left, the insert of the event   *)
(* row may fail (_create_webhook_event raises and nothing is written), and *)
(* so may the query at the head of the inline attempt (the row is stored   *)
(* and no POST is issued); the exception leaves send_webhook and the       *)
(* caller swallows it.  The other database calls are taken to succeed.     *)
send_webhook(vendor_id, event_type, payload, op, intent_id, result) ==
    IF vendor_id \notin DOMAIN Vendors \/ Vendors[vendor_id].webhook_url = None
    THEN UNCHANGED <<events, event_seq, tasks, http_posts, insert_faults>>
    ELSE
      \/ /\ insert_faults > 0
         /\ insert_faults' = insert_faults - 1
         /\ UNCHANGED <<events, event_seq, tasks, http_posts>>
      \/ LET e == event_seq + 1
             row == create_webhook_event(
                        vendor_id, event_type,
                        serialize_payload(WebhookPayload(event_type, vendor_id, now, payload)),
                        Vendors[vendor_id].webhook_url)
         IN /\ insert_faults > 0
            /\ insert_faults' = insert_faults - 1
            /\ event_seq' = e
            /\ events' = [x \in DOMAIN events \cup {e} |->
                             IF x = e THEN row ELSE events[x]]
            /\ http_posts' = [x \in DOMAIN events \cup {e} |->
                                 IF x = e THEN 0 ELSE http_posts[x]]
            /\ UNCHANGED tasks
      \/ LET e == event_seq + 1
                webhook_payload == WebhookPayload(event_type, vendor_id, now, payload)
                row == create_webhook_event(vendor_id, event_type,
                                            serialize_payload(webhook_payload),
                                            Vendors[vendor_id].webhook_url)
                evs == [x \in DOMAIN events \cup {e} |->
                           IF x = e THEN row ELSE events[x]]
            IN /\ event_seq' = e
               /\ UNCHANGED insert_faults
               /\ IF AttemptDecision(evs, e) = "post"
                  THEN /\ events' = evs
                       /\ tasks' = tasks (+) SetToBag({Task(op, intent_id, e,
                                                             serialize_payload(webhook_payload),
                                                             evs[e].attempts, {}, 0, result)})
                       /\ http_posts' = [x \in DOMAIN evs |-> IF x = e THEN 1 ELSE http_posts[x]]
                  ELSE /\ events' = SkipAttempt(evs, e, now)
                       /\ http_posts' = [x \in DOMAIN evs |-> IF x = e THEN 0 ELSE http_posts[x]]
                       /\ UNCHANGED tasks

send_payment_intent_webhook(vendor_id, event_type, intent_id, src_tx_hash, dest_tx_hash, op, result) ==
    send_webhook(vendor_id, event_type,
                 [intent_id |-> intent_id, src_tx_hash |-> src_tx_hash,
                  dest_tx_hash |-> dest_tx_hash],
                 op, intent_id, result)

(* The PaymentIntentResponse built from a stored row *)
get_payment_intent(its, intent_id) ==
    IF intent_id \notin DOMAIN its THEN Nothing
    ELSE Some(
         [intent_id |-> intent_id,
          vendor_id |-> its[intent_id].vendor_id,
          product_id |-> its[intent_id].product_id,
          status |-> its[intent_id].status,
          src_tx_hash |-> its[intent_id].src_tx_hash,
          dest_tx_hash |-> its[intent_id].dest_tx_hash,
          router |-> [address |-> its[intent_id].router_address,
                      chain_id |-> its[intent_id].src_chain_id,
                      function |-> its[intent_id].router_function,
                      calldata |-> its[intent_id].calldata_hex,
                      bridge_fee |-> NoFee]])

(* CreatedResponse answering with the router address of the destination   *)
(* chain instead of the one in router_info                                 *)
CreatedResponseDestinationRouter(req, intent_id, router_info) ==
    [intent_id |-> intent_id,
     vendor_id |-> req.vendor_id,
     product_id |-> req.product_id,
     status |-> "awaiting_user_tx",
     src_tx_hash |-> None,
     dest_tx_hash |-> None,
     router |-> [address |-> CHAIN_CONFIGS[req.dest_chain_id].router_address,
                 chain_id |-> router_info.chain_id,
                 function |-> router_info.function,
                 calldata |-> router_info.calldata,
                 bridge_fee |-> router_info.bridge_fee]]

(* The PaymentIntentResponse create_payment_intent returns: built from the *)
(* request and from the router_info it computed, not from the stored row.  *)
CreatedResponse(req, intent_id, router_info) ==
    [intent_id |-> intent_id,
     vendor_id |-> req.vendor_id,
     product_id |-> req.product_id,
     status |-> "awaiting_user_tx",
     src_tx_hash |-> None,
     dest_tx_hash |-> None,
     router |-> [address |-> router_info.address,
                 chain_id |-> router_info.chain_id,
                 function |-> router_info.function,
                 calldata |-> router_info.calldata,
                 bridge_fee |-> router_info.bridge_fee]]

(* CreateRejected without the check of the vendor's enabled source chains *)
CreateRejectedIgnoringEnabledChains(req) ==
    \/ ~validate_chain_support(req.src_chain_id, req.dest_chain_id)
    \/ req.vendor_id \notin DOMAIN Vendors

(* The ValueError checks of create_payment_intent *)
CreateRejected(req) ==
    \/ ~validate_chain_support(req.src_chain_id, req.dest_chain_id)
    \/ req.vendor_id \notin DOMAIN Vendors
    \/ /\ req.vendor_id \in DOMAIN Vendors
       /\ req.src_chain_id \notin Vendors[req.vendor_id].enabled_source_chains

(* create_payment_intent: the checks, the insert of the row with status     *)
(* created, the UPDATE that promotes it to awaiting_user_tx and the        *)
(* payment_intent.created webhook.  took_effect tells whether the UPDATE   *)
(* changed the row: when it returns no row the code goes on with the row   *)
(* it inserted.                                                            *)
create_payment_intent_promoting(req, took_effect) ==
    /\ UNCHANGED <<now, settings, subscriptions>>
    /\ IF CreateRejected(req)
       THEN UNCHANGED <<intents, events, event_seq, tasks, http_posts, insert_faults>>
       ELSE LET intent_id == Cardinality(DOMAIN intents) + 1
                router_info == generate_payment_calldata(
                                  Vendors[req.vendor_id].wallet_address,
                                  req.amount_usdc_minor, req.src_chain_id,
                                  req.dest_chain_id, intent_id)
                row == [vendor_id |-> req.vendor_id,
                        product_id |-> req.product_id,
                        src_chain_id |-> req.src_chain_id,
                        dest_chain_id |-> req.dest_chain_id,
                        amount_usdc_minor |-> req.amount_usdc_minor,
                        status |-> IF took_effect THEN "awaiting_user_tx" ELSE "created",
                        router_address |-> router_info.address,
                        router_function |-> router_info.function,
                        calldata_hex |-> router_info.calldata,
                        src_tx_hash |-> None,
                        dest_tx_hash |-> None]
            IN /\ intents' = [i \in DOMAIN intents \cup {intent_id} |->
                                 IF i = intent_id THEN row ELSE intents[i]]
               /\ send_payment_intent_webhook(req.vendor_id, "payment_intent.created",
                                              intent_id, None, None, "create",
                                              Some(CreatedResponse(req, intent_id,
                                                                   router_info)))

(* create_payment_intent with the database doing what it is asked *)
create_payment_intent(req) == create_payment_intent_promoting(req, TRUE)

(* update_source_transaction writing back the calldata, regenerated with   *)
(* the source and the destination chain exchanged                          *)
update_source_transaction_regenerating_calldata(intent_id, tx_hash) ==
    /\ UNCHANGED <<now, settings, subscriptions>>
    /\ IF intent_id \notin DOMAIN intents
       THEN UNCHANGED <<intents, events, event_seq, tasks, http_posts, insert_faults>>
       ELSE /\ intents' = [intents EXCEPT
                  ![intent_id].src_tx_hash = tx_hash,
                  ![intent_id].status = "submitted",
                  ![intent_id].calldata_hex =
                      generate_payment_calldata(
                          Vendors[intents[intent_id].vendor_id].wallet_address,
                          intents[intent_id].amount_usdc_minor,
                          intents[intent_id].dest_chain_id,
                          intents[intent_id].src_chain_id, intent_id).calldata]
            /\ send_payment_intent_webhook(intents[intent_id].vendor_id,
                                           "payment_intent.submitted", intent_id,
                                           tx_hash, None, "source",
                                           get_payment_intent(intents', intent_id))

update_source_transaction(intent_id, tx_hash) ==
    /\ UNCHANGED <<now, settings, subscriptions>>
    /\ IF intent_id \notin DOMAIN intents
       THEN UNCHANGED <<intents, events, event_seq, tasks, http_posts, insert_faults>>
       ELSE /\ intents' = [intents EXCEPT ![intent_id].src_tx_hash = tx_hash,
                                          ![intent_id].status = "submitted"]
            /\ send_payment_intent_webhook(intents[intent_id].vendor_id,
                                           "payment_intent.submitted", intent_id,
                                           tx_hash, None, "source",
                                           get_payment_intent(intents', intent_id))

(* update_destination_transaction writing the status only *)
update_destination_transaction_status_only(intent_id, tx_hash) ==
    /\ UNCHANGED <<now, settings, subscriptions>>
    /\ IF intent_id \notin DOMAIN intents
       THEN UNCHANGED <<intents, events, event_seq, tasks, http_posts, insert_faults>>
       ELSE /\ intents' = [intents EXCEPT ![intent_id].status = "settled"]
            /\ send_payment_intent_webhook(intents[intent_id].vendor_id,
                                           "payment_intent.settled", intent_id,
                                           intents[intent_id].src_tx_hash, tx_hash,
                                           "destination",
                                           get_payment_intent(intents', intent_id))

update_destination_transaction(intent_id, tx_hash) ==
    /\ UNCHANGED <<now, settings, subscriptions>>
    /\ IF intent_id \notin DOMAIN intents
       THEN UNCHANGED <<intents, events, event_seq, tasks, http_posts, insert_faults>>
       ELSE /\ intents' = [intents EXCEPT ![intent_id].dest_tx_hash = tx_hash,
                                          ![intent_id].status = "settled"]
            /\ send_payment_intent_webhook(intents[intent_id].vendor_id,
                                           "payment_intent.settled", intent_id,
                                           intents[intent_id].src_tx_hash, tx_hash,
                                           "destination",
                                           get_payment_intent(intents', intent_id))

(* The loop of process_pending_webhooks from the point where the events    *)
(* `rest` of the selection are still to be processed and the table is      *)
(* `evs`: the events it passes without a POST, then either the event whose *)
(* POST suspends it or its return.  The selection has no ORDER BY, so any  *)
(* order of `rest` is possible.  `others` are the other suspended         *)
(* handlers and processed_count counts the events processed so far.       *)
SweepLoop(evs, rest, others, processed_count) ==
    LET skippable == {e \in rest : AttemptDecision(evs, e) # "post"}
    IN \E S \in SUBSET skippable :
         LET evs2 == [e \in DOMAIN evs |->
                         IF e \in S THEN SkipAttempt(evs, e, now)[e] ELSE evs[e]]
         IN \/ /\ S = rest
               /\ events' = evs2
               /\ tasks' = others
               /\ UNCHANGED http_posts
            \/ \E e \in rest \ skippable :
                 /\ events' = evs2
                 /\ tasks' = others (+) SetToBag({Task("sweep", 0, e, sweep_body(evs2, e),
                                                       evs2[e].attempts,
                                                       rest \ (S \cup {e}),
                                                       processed_count + Cardinality(S),
                                                       Nothing)})
                 /\ http_posts' = [http_posts EXCEPT ![e] = @ + 1]

process_pending_webhooks ==
    /\ SweepLoop(events, PendingDue(events, now), tasks, 0)
    /\ UNCHANGED <<intents, event_seq, now, settings, subscriptions, insert_faults>>

(* The HTTP response (or the transport error) of the POST of task t        *)
(* arrives: the rest of _attempt_webhook_delivery, the _schedule_retry of  *)
(* its caller, and the caller up to its next POST or its return.           *)
DeliveryResponse(t, outcome) ==
    /\ BagIn(t, tasks)
    /\ LET evs1 == RecordAttempt(events, t.event, t.current_attempts, outcome)
           evs2 == IF outcome = "2xx" THEN evs1 ELSE schedule_retry(evs1, t.event, now)
           others == tasks (-) SetToBag({t})
       IN IF t.op = "sweep"
          THEN SweepLoop(evs2, t.rest, others, t.processed_count + 1)
          ELSE /\ events' = evs2
               /\ tasks' = others
               /\ UNCHANGED http_posts
    /\ UNCHANGED <<intents, event_seq, now, settings, subscriptions, insert_faults>>

Tick ==
    /\ now' = now + 1
    /\ UNCHANGED <<intents, events, event_seq, tasks, http_posts, settings, subscriptions, response,
                   insert_faults, call>>

HttpOutcomes == {"2xx", "non2xx", "exception"}

(* A step of the services alone: no endpoint answers and no direct call    *)
(* returns                                                                 *)
ServiceStep == UNCHANGED <<response, call>>

(* Room for one more webhook event and one more suspended handler *)
Room(max_events, max_tasks) ==
    event_seq < max_events /\ BagCardinality(tasks) < max_tasks

----------------------------------------------------------------------------
(* The whole system *)

Next ==
    \/ \E req \in CreateRequests :
          /\ Cardinality(DOMAIN intents) < MaxIntents
          /\ Room(MaxEvents, MaxTasks)
          /\ create_payment_intent(req)
          /\ ServiceStep
    \/ \E i \in 1..MaxIntents, h \in TxHashes :
          /\ Room(MaxEvents, MaxTasks)
          /\ update_source_transaction(i, h)
          /\ ServiceStep
    \/ \E i \in 1..MaxIntents, h \in TxHashes :
          /\ Room(MaxEvents, MaxTasks)
          /\ update_destination_transaction(i, h)
          /\ ServiceStep
    \/ /\ BagCardinality(tasks) < MaxTasks
       /\ process_pending_webhooks
       /\ ServiceStep
    \/ \E t \in BagToSet(tasks), outcome \in HttpOutcomes :
          DeliveryResponse(t, outcome) /\ ServiceStep
    \/ /\ now < MaxTime
       /\ Tick

Spec == Init /\ [][Next]_vars

----------------------------------------------------------------------------
(* The delivery engine on its own: notifications are enqueued through      *)
(* send_payment_intent_webhook at any time, for any configured number of   *)
(* retry attempts.                                                         *)

WebhookInit ==
    /\ intents = << >>
    /\ events = << >>
    /\ event_seq = 0
    /\ tasks = EmptyBag
    /\ http_posts = << >>
    /\ now = 0
    /\ settings \in [webhook_retry_attempts : RetryAttemptsSettings]
    /\ response = NoHTTPResponse
    /\ subscriptions = << >>
    /\ call = NoCall
    /\ insert_faults = 0

EnqueueWebhook(vendor_id) ==
    /\ send_payment_intent_webhook(vendor_id, "payment_intent.created", 1, None, None,
                                   "enqueue", Nothing)
    /\ UNCHANGED <<intents, now, settings, subscriptions>>

WebhookNext ==
    \/ \E v \in DOMAIN Vendors :
          /\ Room(MaxHookEvents, MaxHookTasks)
          /\ EnqueueWebhook(v)
          /\ ServiceStep
    \/ /\ BagCardinality(tasks) < MaxHookTasks
       /\ process_pending_webhooks
       /\ ServiceStep
    \/ \E t \in BagToSet(tasks), outcome \in HttpOutcomes :
          DeliveryResponse(t, outcome) /\ ServiceStep
    \/ /\ now < MaxHookTime
       /\ Tick

WebhookSpec == WebhookInit /\ [][WebhookNext]_vars

FairWebhookSpec ==
    /\ WebhookSpec
    /\ WF_vars(process_pending_webhooks /\ ServiceStep)
    /\ WF_vars(\E t \in BagToSet(tasks), outcome \in HttpOutcomes :
                  DeliveryResponse(t, outcome) /\ ServiceStep)
    /\ WF_vars(now < MaxHookTime /\ Tick)

----------------------------------------------------------------------------
(* The payment-intent endpoints: each runs its service method and answers  *)
(* when the method returns, at once or after its webhook POST.             *)

endpoint_create_payment_intent_promoting(req, took_effect) ==
    /\ create_payment_intent_promoting(req, took_effect)
    /\ UNCHANGED call
    /\ response' =
          IF CreateRejected(req) THEN HTTPResponse("create", 400, Nothing)
          ELSE IF tasks' # tasks THEN response
          ELSE LET intent_id == Cardinality(DOMAIN intents) + 1
               IN HTTPResponse("create", 201,
                     Some(CreatedResponse(req, intent_id,
                        generate_payment_calldata(Vendors[req.vendor_id].wallet_address,
                                                  req.amount_usdc_minor, req.src_chain_id,
                                                  req.dest_chain_id, intent_id))))

endpoint_create_payment_intent(req) == endpoint_create_payment_intent_promoting(req, TRUE)

(* endpoint_update_source_transaction without the check for a missing     *)
(* intent: it answers 200 with the None the service returned               *)
endpoint_update_source_transaction_unchecked(intent_id, body) ==
    /\ update_source_transaction(intent_id, TransactionHashUpdate(body).tx_hash)
    /\ UNCHANGED call
    /\ response' =
          IF tasks' # tasks THEN response
          ELSE HTTPResponse("source", 200, get_payment_intent(intents', intent_id))

endpoint_update_source_transaction(intent_id, body) ==
    /\ update_source_transaction(intent_id, TransactionHashUpdate(body).tx_hash)
    /\ UNCHANGED call
    /\ response' =
          IF intent_id \notin DOMAIN intents THEN HTTPResponse("source", 404, Nothing)
          ELSE IF tasks' # tasks THEN response
          ELSE HTTPResponse("source", 200, get_payment_intent(intents', intent_id))

endpoint_update_destination_transaction(intent_id, body) ==
    /\ update_destination_transaction(intent_id, TransactionHashUpdate(body).tx_hash)
    /\ UNCHANGED call
    /\ response' =
          IF intent_id \notin DOMAIN intents THEN HTTPResponse("destination", 404, Nothing)
          ELSE IF tasks' # tasks THEN response
          ELSE HTTPResponse("destination", 200, get_payment_intent(intents', intent_id))

(* EndpointReturn with a handler that lets a failed delivery propagate:    *)
(* the endpoint answers 500.                                               *)
EndpointReturnPropagatingFailure(t, outcome) ==
    /\ DeliveryResponse(t, outcome)
    /\ UNCHANGED call
    /\ response' =
          IF t.op \in {"create", "source", "destination"}
          THEN IF outcome = "2xx"
               THEN HTTPResponse(t.op, IF t.op = "create" THEN 201 ELSE 200, t.result)
               ELSE HTTPResponse(t.op, 500, Nothing)
          ELSE response

(* The POST of a suspended handler ends; a payment-intent handler swallows *)
(* whatever the webhook path did and returns the result it holds.          *)
EndpointReturn(t, outcome) ==
    /\ DeliveryResponse(t, outcome)
    /\ UNCHANGED call
    /\ response' =
          IF t.op \in {"create", "source", "destination"}
          THEN HTTPResponse(t.op, IF t.op = "create" THEN 201 ELSE 200, t.result)
          ELSE response

(* The requests and responses of the API, for at most max_intents stored   *)
(* intents, max_events webhook events and max_tasks suspended handlers     *)
ApiSteps(max_intents, max_events, max_tasks) ==
    \/ \E req \in CreateRequests :
          /\ Cardinality(DOMAIN intents) < max_intents \/ CreateRejected(req)
          /\ Room(max_events, max_tasks)
          /\ endpoint_create_payment_intent(req)
    \/ \E i \in 1..max_intents, body \in TxBodies :
          /\ Room(max_events, max_tasks)
          /\ endpoint_update_source_transaction(i, body)
    \/ \E i \in 1..max_intents, body \in TxBodies :
          /\ Room(max_events, max_tasks)
          /\ endpoint_update_destination_transaction(i, body)
    \/ /\ BagCardinality(tasks) < max_tasks
       /\ process_pending_webhooks
       /\ ServiceStep
    \/ \E t \in BagToSet(tasks), outcome \in HttpOutcomes : EndpointReturn(t, outcome)

ApiNext == ApiSteps(MaxApiIntents, MaxApiEvents, MaxApiTasks)

ApiSpec == Init /\ [][ApiNext]_vars

(* The same, with a database that rejects up to MaxInsertFaults inserts    *)
(* into webhook_events, whichever they are.                                *)
FaultInit ==
    /\ intents = << >>
    /\ events = << >>
    /\ event_seq = 0
    /\ tasks = EmptyBag
    /\ http_posts = << >>
    /\ now = 0
    /\ settings = [webhook_retry_attempts |-> webhook_retry_attempts]
    /\ response = NoHTTPResponse
    /\ subscriptions = << >>
    /\ call = NoCall
    /\ insert_faults = MaxInsertFaults

FaultNext == ApiSteps(MaxFaultIntents, MaxFaultEvents, MaxFaultTasks)

FaultSpec == FaultInit /\ [][FaultNext]_vars

----------------------------------------------------------------------------
(* The retry schedule on its own: one event whose k-th attempt is in       *)
(* flight (the handler read attempts = k - 1 before its POST), for every k *)
(* up to MaxBackoffAttempts; the response arrives at any time.             *)

BackoffInit ==
    /\ intents = << >>
    /\ event_seq = 1
    /\ now = 0
    /\ settings = [webhook_retry_attempts |-> MaxBackoffAttempts]
    /\ response = NoHTTPResponse
    /\ subscriptions = << >>
    /\ call = NoCall
    /\ insert_faults = 0
    /\ \E k \in 1..MaxBackoffAttempts :
          /\ events = [e \in {1} |->
                          [vendor_id |-> "v_hook",
                           event_type |-> "payment_intent.created",
                           payload |-> serialize_payload(
                                          WebhookPayload("payment_intent.created", "v_hook", 0,
                                              [intent_id |-> 1, src_tx_hash |-> None,
                                               dest_tx_hash |-> None])),
                           webhook_url |-> Vendors["v_hook"].webhook_url,
                           status |-> IF k = 1 THEN "pending" ELSE "failed",
                           attempts |-> k - 1,
                           max_attempts |-> MaxBackoffAttempts,
                           next_retry_at |-> IF k = 1 THEN 0 ELSE RetryDelay(k - 1),
                           created_at |-> 0,
                           response_status |-> IF k = 1 THEN NoResponse ELSE 500]]
          /\ tasks = SetToBag({Task("sweep", 0, 1, sweep_body(events, 1), k - 1, {}, 0,
                                   Nothing)})
          /\ http_posts = [e \in {1} |-> k]

BackoffNext ==
    \/ \E t \in BagToSet(tasks), outcome \in HttpOutcomes :
          DeliveryResponse(t, outcome) /\ ServiceStep
    \/ /\ now < MaxBackoffTime
       /\ Tick

BackoffSpec == BackoffInit /\ [][BackoffNext]_vars

----------------------------------------------------------------------------
(* The delivery engine called directly, with what each call returns:       *)
(* send_webhook for a vendor with a webhook URL, one without and one that  *)
(* does not exist, and process_pending_webhooks.                           *)

VendorIds == DOMAIN Vendors \cup {"v_none"}

(* The vendor exists and has a webhook URL *)
HasWebhookUrl(vendor_id) ==
    IF vendor_id \in DOMAIN Vendors THEN Vendors[vendor_id].webhook_url # None ELSE FALSE

(* What send_webhook returns: "True if webhook was queued successfully" *)
Queued(b) == [queued |-> b]

(* What process_pending_webhooks returns: the number of webhooks processed *)
Processed(n) == [processed_count |-> n]

(* send_webhook reporting a failure when it enqueued nothing *)
call_send_webhook_reporting_skip(vendor_id) ==
    /\ EnqueueWebhook(vendor_id)
    /\ UNCHANGED response
    /\ call' = IF tasks' # tasks THEN call
               ELSE ServiceCall("send_webhook", <<vendor_id>>, Some(Queued(event_seq' # event_seq)))

(* send_webhook up to its POST, or to its return: True when it skipped the *)
(* vendor or expired the event at once, no result when the insert raised   *)
call_send_webhook(vendor_id) ==
    /\ EnqueueWebhook(vendor_id)
    /\ UNCHANGED response
    /\ call' = IF tasks' # tasks THEN call
               ELSE IF insert_faults' # insert_faults
                    THEN ServiceCall("send_webhook", <<vendor_id>>, Nothing)
                    ELSE ServiceCall("send_webhook", <<vendor_id>>, Some(Queued(TRUE)))

(* process_pending_webhooks up to its first POST, or to its return when no *)
(* selected event is posted: processed_count is the number of selected     *)
(* events                                                                  *)
call_process_pending_webhooks ==
    /\ process_pending_webhooks
    /\ UNCHANGED response
    /\ call' = IF tasks' # tasks THEN call
               ELSE ServiceCall("process_pending_webhooks", << >>,
                                Some(Processed(Cardinality(PendingDue(events, now)))))

(* The POST of a suspended call ends: send_webhook returns True; the sweep *)
(* goes on and, when it posts no other event, returns its processed_count  *)
CallReturn(t, outcome) ==
    /\ DeliveryResponse(t, outcome)
    /\ UNCHANGED response
    /\ call' = IF t.op = "sweep"
               THEN IF tasks' = tasks (-) SetToBag({t})
                    THEN ServiceCall("process_pending_webhooks", << >>,
                                     Some(Processed(t.processed_count + 1
                                                    + Cardinality(t.rest))))
                    ELSE call
               ELSE ServiceCall("send_webhook", <<events[t.event].vendor_id>>,
                                Some(Queued(TRUE)))

CallNext ==
    \/ \E v \in VendorIds :
          /\ Room(MaxCallEvents, MaxCallTasks)
          /\ call_send_webhook(v)
    \/ /\ BagCardinality(tasks) < MaxCallTasks
       /\ call_process_pending_webhooks
    \/ \E t \in BagToSet(tasks), outcome \in HttpOutcomes : CallReturn(t, outcome)
    \/ /\ now < MaxCallTime
       /\ Tick

CallSpec == WebhookInit /\ [][CallNext]_vars

----------------------------------------------------------------------------
(* The delivery engine when a call of send_webhook can stop between the    *)
(* insert of the event and the inline attempt, and the sweep is called     *)
(* again and again.                                                        *)

(* send_webhook stopped after _create_webhook_event: the query at the head *)
(* of _attempt_webhook_delivery raises, or the process is stopped.  The    *)
(* event is stored and no POST is issued.                                  *)
send_webhook_interrupted(vendor_id) ==
    /\ HasWebhookUrl(vendor_id)
    /\ LET e == event_seq + 1
           row == create_webhook_event(vendor_id, "payment_intent.created",
                                       serialize_payload(
                                          WebhookPayload("payment_intent.created", vendor_id, now,
                                              [intent_id |-> 1, src_tx_hash |-> None,
                                               dest_tx_hash |-> None])),
                                       Vendors[vendor_id].webhook_url)
       IN /\ event_seq' = e
          /\ events' = [x \in DOMAIN events \cup {e} |->
                           IF x = e THEN row ELSE events[x]]
          /\ http_posts' = [x \in DOMAIN events \cup {e} |->
                               IF x = e THEN 0 ELSE http_posts[x]]
    /\ call' = ServiceCall("send_webhook", <<vendor_id>>, Nothing)
    /\ UNCHANGED <<intents, tasks, now, settings, subscriptions, response, insert_faults>>

PollSweep ==
    /\ BagCardinality(tasks) < MaxPollTasks
    /\ call_process_pending_webhooks

PollResponse ==
    \E t \in BagToSet(tasks), outcome \in HttpOutcomes : CallReturn(t, outcome)

PollNext ==
    \/ \E v \in VendorIds :
          /\ Room(MaxPollEvents, MaxPollTasks)
          /\ call_send_webhook(v)
    \/ \E v \in VendorIds :
          /\ event_seq < MaxPollEvents
          /\ send_webhook_interrupted(v)
    \/ PollSweep
    \/ PollResponse

PollSpec == Init /\ [][PollNext]_vars

(* The sweep is called again whenever it has something to do, and every    *)
(* POST ends: with a response, or with the timeout of the HTTP client.     *)
FairPollSpec ==
    /\ PollSpec
    /\ WF_vars(PollSweep)
    /\ WF_vars(PollResponse)

----------------------------------------------------------------------------
(* An intent whose events are left to the sweep: a vendor with a webhook   *)
(* URL creates intents and reports their transactions while the database   *)
(* may reject a statement on webhook_events, so an event can be stored     *)
(* with its inline push never issued and be posted later by the sweep,     *)
(* after the intent has changed.                                           *)
RetryRequests == {PaymentIntentCreate("v_hook", "p_abc", 84532, 8453)}

RetryInit ==
    /\ intents = << >>
    /\ events = << >>
    /\ event_seq = 0
    /\ tasks = EmptyBag
    /\ http_posts = << >>
    /\ now = 0
    /\ settings = [webhook_retry_attempts |-> webhook_retry_attempts]
    /\ response = NoHTTPResponse
    /\ subscriptions = << >>
    /\ call = NoCall
    /\ insert_faults = MaxRetryFaults

RetryNext ==
    \/ \E req \in RetryRequests :
          /\ Cardinality(DOMAIN intents) < MaxRetryIntents
          /\ Room(MaxRetryEvents, MaxRetryTasks)
          /\ create_payment_intent(req)
          /\ ServiceStep
    \/ \E i \in 1..MaxRetryIntents, body \in TxBodies :
          /\ Room(MaxRetryEvents, MaxRetryTasks)
          /\ update_source_transaction(i, TransactionHashUpdate(body).tx_hash)
          /\ ServiceStep
    \/ \E i \in 1..MaxRetryIntents, body \in TxBodies :
          /\ Room(MaxRetryEvents, MaxRetryTasks)
          /\ update_destination_transaction(i, TransactionHashUpdate(body).tx_hash)
          /\ ServiceStep
    \/ /\ BagCardinality(tasks) < MaxRetryTasks
       /\ process_pending_webhooks
       /\ ServiceStep
    \/ \E t \in BagToSet(tasks), outcome \in HttpOutcomes :
          DeliveryResponse(t, outcome) /\ ServiceStep

RetrySpec == RetryInit /\ [][RetryNext]_vars

----------------------------------------------------------------------------
(* The stores over the days: intents are created and their transactions    *)
(* reported, events are pushed, swept and, once they are old enough,       *)
(* deleted by the cleanup.                                                 *)

Deleted(n) == [deleted_count |-> n]

(* cleanup_old_webhook_events deleting, with each old event, the payment   *)
(* intent the event is about                                               *)
cleanup_old_webhook_events_with_their_intents(days_old) ==
    LET cutoff_date == now - days_old * SecondsPerDay
        deleted == {e \in DOMAIN events : events[e].created_at < cutoff_date}
        orphaned == {events[e].payload.intent_id : e \in deleted}
    IN /\ events' = [e \in DOMAIN events \ deleted |-> events[e]]
       /\ http_posts' = [e \in DOMAIN events \ deleted |-> http_posts[e]]
       /\ intents' = [i \in DOMAIN intents \ orphaned |-> intents[i]]
       /\ call' = ServiceCall("cleanup_old_webhook_events", <<days_old>>,
                              Some(Deleted(Cardinality(deleted))))
       /\ UNCHANGED <<event_seq, tasks, now, settings, subscriptions, response, insert_faults>>

(* cleanup_old_webhook_events deleting only the old events whose delivery  *)
(* has ended (sent or expired)                                             *)
cleanup_old_webhook_events_ended_only(days_old) ==
    LET cutoff_date == now - days_old * SecondsPerDay
        deleted == {e \in DOMAIN events : /\ events[e].created_at < cutoff_date
                                          /\ events[e].status \in {"sent", "expired"}}
    IN /\ events' = [e \in DOMAIN events \ deleted |-> events[e]]
       /\ http_posts' = [e \in DOMAIN events \ deleted |-> http_posts[e]]
       /\ call' = ServiceCall("cleanup_old_webhook_events", <<days_old>>,
                              Some(Deleted(Cardinality(deleted))))
       /\ UNCHANGED <<intents, event_seq, tasks, now, settings, subscriptions, response,
                      insert_faults>>

(* cleanup_old_webhook_events: one DELETE on webhook_events, of the rows   *)
(* created before now - days_old days; it returns how many it deleted.     *)
cleanup_old_webhook_events(days_old) ==
    LET cutoff_date == now - days_old * SecondsPerDay
        deleted == {e \in DOMAIN events : events[e].created_at < cutoff_date}
    IN /\ events' = [e \in DOMAIN events \ deleted |-> events[e]]
       /\ http_posts' = [e \in DOMAIN events \ deleted |-> http_posts[e]]
       /\ call' = ServiceCall("cleanup_old_webhook_events", <<days_old>>,
                              Some(Deleted(Cardinality(deleted))))
       /\ UNCHANGED <<intents, event_seq, tasks, now, settings, subscriptions, response,
                      insert_faults>>

(* A day passes.  No POST is in flight across it: the HTTP client gives up *)
(* after webhook_timeout_seconds.                                          *)
DayPasses ==
    /\ tasks = EmptyBag
    /\ now' = now + SecondsPerDay
    /\ UNCHANGED <<intents, events, event_seq, tasks, http_posts, settings, subscriptions, response,
                   insert_faults, call>>

StoreNext ==
    \/ \E req \in RetryRequests :
          /\ Cardinality(DOMAIN intents) < MaxStoreIntents
          /\ Room(MaxStoreEvents, MaxStoreTasks)
          /\ create_payment_intent(req)
          /\ ServiceStep
    \/ \E i \in 1..MaxStoreIntents, body \in TxBodies :
          /\ Room(MaxStoreEvents, MaxStoreTasks)
          /\ update_source_transaction(i, TransactionHashUpdate(body).tx_hash)
          /\ ServiceStep
    \/ \E i \in 1..MaxStoreIntents, body \in TxBodies :
          /\ Room(MaxStoreEvents, MaxStoreTasks)
          /\ update_destination_transaction(i, TransactionHashUpdate(body).tx_hash)
          /\ ServiceStep
    \/ /\ BagCardinality(tasks) < MaxStoreTasks
       /\ process_pending_webhooks
       /\ ServiceStep
    \/ \E t \in BagToSet(tasks), outcome \in HttpOutcomes :
          DeliveryResponse(t, outcome) /\ ServiceStep
    \/ \E days_old \in 1..MaxCleanupDays :
          cleanup_old_webhook_events(days_old)
    \/ /\ now < (MaxCleanupDays + 1) * SecondsPerDay
       /\ DayPasses

StoreSpec == Init /\ [][StoreNext]_vars

----------------------------------------------------------------------------
(* The calldata endpoint beside the life of an intent: POST                *)
(* /generate-calldata takes an untyped JSON object and can be called in    *)
(* any state, with any wallet, payment id and bridge address.              *)

EncoderWallets ==
    { <<"0", "x">> \o Repeat("a", 40),
      Repeat("A", 42),
      <<"0", "x">> \o Repeat("a", MaxWalletDigits) }

EncoderPaymentIds == { <<"p", "i", "_", "1">>, <<"0", "x">> \o Repeat("B", 64) }

EncoderBridges == { Nothing, Some(<<"0", "x">> \o Repeat("b", 40)) }

CalldataRequests ==
    [vendor_wallet : EncoderWallets,
     amount_usdc_minor : {0, 990000},
     src_chain_id : {84532, 999},
     dest_chain_id : {84532, 8453},
     payment_intent_id : EncoderPaymentIds,
     bridge_address : EncoderBridges]

(* The endpoint: 400 (Nothing) for a missing or falsy required field and   *)
(* for the ValueError of the service, else the service's answer            *)
post_generate_calldata(request) ==
    /\ call' = ServiceCall("generate_calldata",
                           <<request.vendor_wallet, request.amount_usdc_minor,
                             request.src_chain_id, request.dest_chain_id,
                             request.payment_intent_id, request.bridge_address>>,
                           IF request.amount_usdc_minor = 0 THEN Nothing
                           ELSE generate_calldata_hex(
                                    request.vendor_wallet, request.amount_usdc_minor,
                                    request.src_chain_id, request.dest_chain_id,
                                    request.payment_intent_id, request.bridge_address))
    /\ UNCHANGED <<intents, events, event_seq, tasks, http_posts, now, settings, subscriptions,
                   response, insert_faults>>

EncoderNext ==
    \/ \E req \in RetryRequests :
          /\ Cardinality(DOMAIN intents) < MaxEncoderIntents
          /\ Room(MaxEncoderEvents, MaxEncoderTasks)
          /\ create_payment_intent(req)
          /\ ServiceStep
    \/ \E i \in 1..MaxEncoderIntents, body \in TxBodies :
          /\ Room(MaxEncoderEvents, MaxEncoderTasks)
          /\ update_source_transaction(i, TransactionHashUpdate(body).tx_hash)
          /\ ServiceStep
    \/ \E t \in BagToSet(tasks), outcome \in HttpOutcomes :
          DeliveryResponse(t, outcome) /\ ServiceStep
    \/ \E request \in CalldataRequests :
          post_generate_calldata(request)

EncoderSpec == Init /\ [][EncoderNext]_vars

----------------------------------------------------------------------------
(* Reading an intent back during its life: get_payment_intent is called    *)
(* between the other operations, for the stored intents and for an id that *)
(* is not stored.                                                          *)

Fetched(intent) == [intent |-> intent]

(* get_payment_intent reporting the status the transaction hashes imply    *)
(* instead of the stored one                                               *)
call_get_payment_intent_deriving_status(intent_id) ==
    /\ call' = ServiceCall("get_payment_intent", <<intent_id>>,
                  Some(Fetched(
                     IF intent_id \notin DOMAIN intents THEN Nothing
                     ELSE Some([The(get_payment_intent(intents, intent_id)) EXCEPT
                                  !.status = IF intents[intent_id].dest_tx_hash # None
                                             THEN "settled"
                                             ELSE IF intents[intent_id].src_tx_hash # None
                                             THEN "submitted"
                                             ELSE "awaiting_user_tx"]))))
    /\ UNCHANGED <<intents, events, event_seq, tasks, http_posts, now, settings, subscriptions,
                   response, insert_faults>>

(* get_payment_intent: one SELECT and the response built from the row *)
call_get_payment_intent(intent_id) ==
    /\ call' = ServiceCall("get_payment_intent", <<intent_id>>,
                           Some(Fetched(get_payment_intent(intents, intent_id))))
    /\ UNCHANGED <<intents, events, event_seq, tasks, http_posts, now, settings, subscriptions,
                   response, insert_faults>>

FetchNext ==
    \/ \E req \in RetryRequests :
          /\ Cardinality(DOMAIN intents) < MaxFetchIntents
          /\ Room(MaxFetchEvents, MaxFetchTasks)
          /\ create_payment_intent(req)
          /\ ServiceStep
    \/ \E i \in 1..MaxFetchIntents, body \in TxBodies :
          /\ Room(MaxFetchEvents, MaxFetchTasks)
          /\ update_source_transaction(i, TransactionHashUpdate(body).tx_hash)
          /\ ServiceStep
    \/ \E i \in 1..MaxFetchIntents, body \in TxBodies :
          /\ Room(MaxFetchEvents, MaxFetchTasks)
          /\ update_destination_transaction(i, TransactionHashUpdate(body).tx_hash)
          /\ ServiceStep
    \/ \E t \in BagToSet(tasks), outcome \in HttpOutcomes :
          DeliveryResponse(t, outcome) /\ ServiceStep
    \/ \E i \in 1..(MaxFetchIntents + 1) :
          call_get_payment_intent(i)

FetchSpec == Init /\ [][FetchNext]_vars

----------------------------------------------------------------------------
(* Subscriptions: created active, then set to whatever status the PATCH    *)
(* endpoint is given.                                                      *)

SubscriptionStatus == {"active", "paused", "cancelled", "expired"}

(* The SubscriptionCreate bodies: the vendor and the product they name *)
SubscriptionCreate == [vendor_id : VendorIds, product_id : DOMAIN Products \cup {"p_missing"}]

(* create_subscription: the vendor and the product must exist (the product *)
(* need not be the vendor's); the row is inserted with status active       *)
create_subscription(subscription_data) ==
    /\ IF \/ subscription_data.vendor_id \notin DOMAIN Vendors
          \/ subscription_data.product_id \notin DOMAIN Products
       THEN UNCHANGED subscriptions
       ELSE LET subscription_id == Cardinality(DOMAIN subscriptions) + 1
            IN subscriptions' =
                  [s \in DOMAIN subscriptions \cup {subscription_id} |->
                      IF s = subscription_id
                      THEN [vendor_id |-> subscription_data.vendor_id,
                            product_id |-> subscription_data.product_id,
                            status |-> "active"]
                      ELSE subscriptions[s]]
    /\ UNCHANGED <<intents, events, event_seq, tasks, http_posts, now, settings,
                   response, insert_faults, call>>

(* update_subscription_status: one UPDATE of the status by subscription_id *)
(* with no condition on the stored status; no row, nothing written         *)
update_subscription_status(subscription_id, status) ==
    /\ subscriptions' =
          IF subscription_id \notin DOMAIN subscriptions THEN subscriptions
          ELSE [subscriptions EXCEPT ![subscription_id].status = status]
    /\ UNCHANGED <<intents, events, event_seq, tasks, http_posts, now, settings,
                   response, insert_faults, call>>

SubscriptionNext ==
    \/ \E subscription_data \in SubscriptionCreate :
          /\ Cardinality(DOMAIN subscriptions) < MaxSubscriptions
          /\ create_subscription(subscription_data)
    \/ \E subscription_id \in 1..MaxSubscriptions, status \in SubscriptionStatus :
          update_subscription_status(subscription_id, status)

SubscriptionSpec == Init /\ [][SubscriptionNext]_vars

----------------------------------------------------------------------------
(* The creation endpoint with its two writes: the UPDATE that promotes the *)
(* inserted row may return no row, and the transactions of an intent can *)
(* be reported while its creation is still waiting for the webhook POST.  *)

PromotionNext ==
    \/ \E req \in CreateRequests, took_effect \in BOOLEAN :
          /\ Cardinality(DOMAIN intents) < MaxPromotionIntents \/ CreateRejected(req)
          /\ Room(MaxPromotionEvents, MaxPromotionTasks)
          /\ endpoint_create_payment_intent_promoting(req, took_effect)
    \/ \E i \in 1..MaxPromotionIntents, body \in TxBodies :
          /\ Room(MaxPromotionEvents, MaxPromotionTasks)
          /\ endpoint_update_source_transaction(i, body)
    \/ \E i \in 1..MaxPromotionIntents, body \in TxBodies :
          /\ Room(MaxPromotionEvents, MaxPromotionTasks)
          /\ endpoint_update_destination_transaction(i, body)
    \/ \E t \in BagToSet(tasks), outcome \in HttpOutcomes : EndpointReturn(t, outcome)

PromotionSpec == Init /\ [][PromotionNext]_vars

----------------------------------------------------------------------------
(* The router functions on their own: one call of one function, for every  *)
(* chain of the registry and one that is not in it, every payment type and *)
(* a range of amounts.                                                     *)

RouterChainIds == DOMAIN CHAIN_CONFIGS \cup {999}

RouterAmounts == {k * k * k : k \in 0..MaxAmountRoot} \cup {990000}

RouterInit ==
    /\ intents = << >>
    /\ events = << >>
    /\ event_seq = 0
    /\ tasks = EmptyBag
    /\ http_posts = << >>
    /\ now = 0
    /\ settings = [webhook_retry_attempts |-> webhook_retry_attempts]
    /\ response = NoHTTPResponse
    /\ subscriptions = << >>
    /\ insert_faults = 0
    /\ \/ \E amount \in RouterAmounts, c \in RouterChainIds :
             call = ServiceCall("calculate_bridge_fee", <<amount, c>>, Nothing)
       \/ \E src \in RouterChainIds, dest \in RouterChainIds, ty \in PaymentType,
              n \in 1..MaxRecipients :
             call = ServiceCall("select_optimal_function", <<src, dest, ty, n>>, Nothing)
       \/ \E src \in RouterChainIds, dest \in RouterChainIds :
             call = ServiceCall("validate_chain_support", <<src, dest>>, Nothing)
       \/ \E amount \in RouterAmounts, src \in RouterChainIds, dest \in RouterChainIds,
              ty \in PaymentType :
             call = ServiceCall("generate_payment_calldata",
                                <<"0xw1", amount, src, dest, 1, ty>>, Nothing)

(* The called function returns *)
RouterReturn(method, result) ==
    /\ call.method = method
    /\ call.result = Nothing
    /\ call' = [call EXCEPT !.result = Some(result)]
    /\ UNCHANGED <<intents, events, event_seq, tasks, http_posts, now, settings, subscriptions,
                   response, insert_faults>>

call_calculate_bridge_fee ==
    RouterReturn("calculate_bridge_fee",
                 calculate_bridge_fee(call.args[1], call.args[2]))

call_select_optimal_function ==
    RouterReturn("select_optimal_function",
                 select_optimal_function(call.args[1], call.args[2], call.args[3],
                                         call.args[4]))

call_validate_chain_support ==
    RouterReturn("validate_chain_support",
                 validate_chain_support(call.args[1], call.args[2]))

call_generate_payment_calldata ==
    RouterReturn("generate_payment_calldata",
                 RouterService_generate_payment_calldata(
                     call.args[1], call.args[2], call.args[3], call.args[4],
                     call.args[5], call.args[6]))

RouterNext ==
    \/ call_calculate_bridge_fee
    \/ call_select_optimal_function
    \/ call_validate_chain_support
    \/ call_generate_payment_calldata

RouterSpec == RouterInit /\ [][RouterNext]_vars

----------------------------------------------------------------------------
(* What the handlers return to the API layer *)

update_source_transaction_result(intent_id) ==
    IF intent_id \notin DOMAIN intents THEN "not_found" ELSE "ok"

IntentStatusEdges ==
    { <<"created", "awaiting_user_tx">>, <<"awaiting_user_tx", "submitted">>,
      <<"submitted", "settled">>, <<"submitted", "failed">>,
      <<"created", "settled">>, <<"created", "failed">>,
      <<"failed", "settled">>, <<"failed", "failed">> }

(* The last recorded delivery attempt of event e failed *)
LastAttemptFailed(e) == events[e].response_status \notin {NoResponse, 200}

FinalStatuses == {"sent", "expired"}

----------------------------------------------------------------------------
(* Claims *)

(* C1: every change of an intent's stored status is one of the legal edges *)
(* created -> awaiting_user_tx, awaiting_user_tx -> submitted, submitted   *)
(* -> {settled, failed}, {created, failed} -> {settled, failed}.           *)
C1_OnlyLegalStatusChanges ==
    [][\A i \in DOMAIN intents :
          intents'[i].status # intents[i].status
             => <<intents[i].status, intents'[i].status>> \in IntentStatusEdges]_vars

(* C2: report-source-transaction on an existing intent whose status is not *)
(* awaiting_user_tx is rejected with a conflict, leaves status and         *)
(* src_tx_hash unchanged and enqueues no webhook event.                    *)
C2_SourceReportRejectedUnlessAwaiting ==
    [][\A i \in DOMAIN intents, h \in TxHashes :
          (intents[i].status # "awaiting_user_tx" /\ update_source_transaction(i, h))
             => /\ update_source_transaction_result(i) = "conflict"
                /\ intents'[i].status = intents[i].status
                /\ intents'[i].src_tx_hash = intents[i].src_tx_hash
                /\ events' = events]_vars

(* C3: while a report-source-transaction request that moved the intent to  *)
(* submitted is still running, a second report-source-transaction on the   *)
(* same intent with another hash is rejected and does not overwrite the    *)
(* stored src_tx_hash.                                                     *)
C3_ConcurrentSourceReportsOneWins ==
    [][\A i \in DOMAIN intents, h \in TxHashes :
          ( /\ \E t \in BagToSet(tasks) :
                  /\ t.op = "source" /\ t.intent_id = i
                  /\ events[t.event].payload.src_tx_hash = intents[i].src_tx_hash
             /\ h # intents[i].src_tx_hash
             /\ update_source_transaction(i, h) )
             => /\ update_source_transaction_result(i) = "conflict"
                /\ intents'[i].src_tx_hash = intents[i].src_tx_hash]_vars

(* C4: an event whose last delivery attempt failed while attempts <        *)
(* max_attempts is selected by a poll sweep run at or after its            *)
(* next_retry_at.                                                          *)
C4_FailedEventStaysEligible ==
    \A e \in DOMAIN events :
        ( /\ LastAttemptFailed(e)
          /\ events[e].attempts < events[e].max_attempts
          /\ events[e].next_retry_at <= now )
           => e \in PendingDue(events, now)

(* C5: every persisted webhook event eventually reaches status sent or     *)
(* expired, when time advances, responses arrive and the poll sweep keeps  *)
(* being run.                                                              *)
C5_EveryEventReachesFinalStatus ==
    \A e \in 1..MaxHookEvents :
        (e \in DOMAIN events)
           ~> (e \in DOMAIN events /\ events[e].status \in FinalStatuses)

(* C6: once an event is sent or expired, no later step changes its status, *)
(* attempts, next_retry_at or recorded response.                           *)
C6_FinalEventNeverChanges ==
    [][\A e \in DOMAIN events :
          events[e].status \in FinalStatuses
             => /\ events'[e].status = events[e].status
                /\ events'[e].attempts = events[e].attempts
                /\ events'[e].next_retry_at = events[e].next_retry_at
                /\ events'[e].response_status = events[e].response_status]_vars

(* C7: the number of HTTP POSTs issued for an event never exceeds its      *)
(* max_attempts.                                                           *)
C7_PostsBoundedByMaxAttempts ==
    \A e \in DOMAIN events : http_posts[e] <= events[e].max_attempts

(* C8: in every reachable state every webhook event has attempts <=        *)
(* max_attempts, also when delivery attempts on the same event overlap.    *)
C8_AttemptsAtMostMax ==
    \A e \in DOMAIN events : events[e].attempts <= events[e].max_attempts

(* two POSTs were issued for the same event before either was recorded,    *)
(* and the event now stands at max_attempts                                *)
C8_Witness ==
    \E e \in DOMAIN events :
        /\ http_posts[e] >= 2
        /\ events[e].attempts = events[e].max_attempts
        /\ \E t \in BagToSet(tasks) : t.event = e /\ t.current_attempts < events[e].attempts

(* C9: when a failed attempt brings attempts up to max_attempts the event  *)
(* becomes expired, and its next_retry_at is advanced neither by that      *)
(* attempt nor by any later step.                                          *)
C9_ExhaustedEventExpiresUnscheduled ==
    [][\A e \in DOMAIN events :
          /\ ( /\ events[e].attempts < events[e].max_attempts
               /\ events'[e].attempts = events'[e].max_attempts
               /\ events'[e].response_status # 200 )
                => /\ events'[e].status = "expired"
                   /\ events'[e].next_retry_at = events[e].next_retry_at
          /\ ( /\ events[e].attempts = events[e].max_attempts
               /\ LastAttemptFailed(e) )
                => events'[e].next_retry_at = events[e].next_retry_at]_vars

(* base_delay * 2^(k-1) by repeated doubling *)
RECURSIVE Doubled(_)
Doubled(k) == IF k <= 1 THEN webhook_retry_delay_seconds ELSE 2 * Doubled(k - 1)

----------------------------------------------------------------------------
IntentOps == {"create", "source", "destination"}

(* The handler of operation op on intent i answers normally: either it has *)
(* answered with its success status and the intent, or it is suspended at  *)
(* its webhook POST.                                                       *)
AnswersOrAwaitsPost(op, i) ==
    \/ /\ response'.op = op
       /\ response'.status_code = (IF op = "create" THEN 201 ELSE 200)
       /\ response'.body # Nothing
       /\ The(response'.body).intent_id = i
       /\ tasks' = tasks
    \/ /\ response' = response
       /\ \E t \in BagToSet(tasks') :
             /\ t.op = op /\ t.intent_id = i
             /\ CopiesIn(t, tasks') = CopiesIn(t, tasks) + 1

(* What the specification requires of a create request *)
RequestValid(req) ==
    /\ req.src_chain_id \in get_supported_chains
    /\ req.dest_chain_id \in get_supported_chains
    /\ req.vendor_id \in DOMAIN Vendors
    /\ req.src_chain_id \in Vendors[req.vendor_id].enabled_source_chains

(* C11: whatever the webhook path does (non-2xx response, transport error  *)
(* or timeout, failing insert of the webhook event), create, report-source *)
(* and report-destination persist their transition, answer with their      *)
(* normal result, and the answer leaves the stored intents as they are.    *)
C11_WebhookFailureIsolated ==
    [][/\ \A req \in CreateRequests :
             (RequestValid(req) /\ endpoint_create_payment_intent(req))
                => LET i == Cardinality(DOMAIN intents) + 1
                   IN /\ i \in DOMAIN intents'
                      /\ intents'[i].status = "awaiting_user_tx"
                      /\ AnswersOrAwaitsPost("create", i)
       /\ \A i \in DOMAIN intents, body \in TxBodies :
             /\ endpoint_update_source_transaction(i, body)
                   => /\ intents'[i].status = "submitted"
                      /\ intents'[i].src_tx_hash = body.tx_hash
                      /\ AnswersOrAwaitsPost("source", i)
             /\ endpoint_update_destination_transaction(i, body)
                   => /\ intents'[i].status = "settled"
                      /\ intents'[i].dest_tx_hash = body.tx_hash
                      /\ AnswersOrAwaitsPost("destination", i)
       /\ \A t \in BagToSet(tasks), outcome \in HttpOutcomes :
             (t.op \in IntentOps /\ EndpointReturn(t, outcome))
                => /\ intents' = intents
                   /\ response'.op = t.op
                   /\ response'.status_code = (IF t.op = "create" THEN 201 ELSE 200)
                   /\ response'.body # Nothing
                   /\ The(response'.body).intent_id = t.intent_id]_vars

(* the event of the creation was never stored, the delivery of the         *)
(* submitted event failed, and the source report was still answered 200    *)
(* with the intent submitted                                               *)
C11_Witness ==
    /\ response.op = "source"
    /\ response.status_code = 200
    /\ \E i \in DOMAIN intents :
          /\ Vendors[intents[i].vendor_id].webhook_url # None
          /\ intents[i].status = "submitted"
          /\ The(response.body).intent_id = i
          /\ ~ \E e \in DOMAIN events :
                  events[e].event_type = "payment_intent.created"
          /\ \E e \in DOMAIN events :
                  /\ events[e].event_type = "payment_intent.submitted"
                  /\ events[e].payload.intent_id = i
                  /\ events[e].status = "failed"

(* C12: a create request that fails validation (source or destination      *)
(* chain not in the registry, unknown vendor, source chain not enabled for *)
(* the vendor) is answered with a validation error and stores nothing: no  *)
(* payment_intents row and no webhook_events row.                          *)
C12_InvalidCreateStoresNothing ==
    [][\A req \in CreateRequests :
          (~RequestValid(req) /\ endpoint_create_payment_intent(req))
             => /\ response' = HTTPResponse("create", 400, Nothing)
                /\ intents' = intents
                /\ events' = events
                /\ event_seq' = event_seq
                /\ tasks' = tasks]_vars

(* a create request was answered 400 after an intent had been stored, and  *)
(* the store still holds that one intent                                   *)
C12_Witness ==
    /\ response = HTTPResponse("create", 400, Nothing)
    /\ Cardinality(DOMAIN intents) = 1
    /\ tasks = EmptyBag

C14_DestinationReportOnlyFromCreatedOrFailed ==
    [][\A i \in DOMAIN intents, body \in TxBodies :
          ( /\ intents[i].status \notin {"created", "failed"}
            /\ endpoint_update_destination_transaction(i, body) )
             => /\ response'.op = "destination"
                /\ response'.status_code = 409
                /\ intents'[i] = intents[i]
                /\ events' = events]_vars

(* C15: a destination report that declares the outcome failed records the  *)
(* hash, sets the intent's status to failed and enqueues no webhook event. *)
C15_FailedOutcomeRecordedSilently ==
    [][\A i \in DOMAIN intents, body \in TxBodies :
          ( /\ body.status = "failed"
            /\ endpoint_update_destination_transaction(i, body) )
             => /\ intents'[i].status = "failed"
                /\ intents'[i].dest_tx_hash = body.tx_hash
                /\ events' = events]_vars

(* C16: a create request whose product_id names no product is answered     *)
(* not-found and stores neither an intent nor a webhook event.             *)
C16_UnknownProductRejected ==
    [][\A req \in CreateRequests :
          ( /\ req.product_id \notin DOMAIN Products
            /\ endpoint_create_payment_intent(req) )
             => /\ response'.op = "create"
                /\ response'.status_code = 404
                /\ intents' = intents
                /\ events' = events]_vars

(* C17: report-source and report-destination for an intent_id that is not  *)
(* stored answer not-found, change no intent and enqueue no webhook event. *)
C17_UnknownIntentNotFound ==
    [][\A i \in 1..(MaxApiIntents + 1), body \in TxBodies :
          /\ (i \notin DOMAIN intents /\ endpoint_update_source_transaction(i, body))
                => /\ response' = HTTPResponse("source", 404, Nothing)
                   /\ UNCHANGED <<intents, events, event_seq, tasks, http_posts>>
          /\ (i \notin DOMAIN intents /\ endpoint_update_destination_transaction(i, body))
                => /\ response' = HTTPResponse("destination", 404, Nothing)
                   /\ UNCHANGED <<intents, events, event_seq, tasks, http_posts>>]_vars

(* a source report for an intent that does not exist was answered 404 and  *)
(* the tables are still empty                                              *)
C17_Witness ==
    /\ response = HTTPResponse("source", 404, Nothing)
    /\ intents = << >>
    /\ events = << >>

(* The fields of an intent that are fixed at creation *)
CreationFields(row) ==
    <<row.router_address, row.router_function, row.calldata_hex, row.vendor_id,
      row.product_id, row.src_chain_id, row.dest_chain_id, row.amount_usdc_minor>>

(* C18: once an intent is stored, no step changes its router address,      *)
(* router function, calldata, vendor_id, product_id, chain ids or amount,  *)
(* and no step removes it.                                                 *)
C18_CreationFieldsNeverChange ==
    [][\A i \in DOMAIN intents :
          /\ i \in DOMAIN intents'
          /\ CreationFields(intents'[i]) = CreationFields(intents[i])]_vars

(* the source transaction of an intent was reported and its webhook POST   *)
(* answered, and the stored calldata is still the one generated for the    *)
(* intent                                                                  *)
C18_Witness ==
    \E i \in DOMAIN intents, e \in DOMAIN events :
        /\ intents[i].src_tx_hash # None
        /\ intents[i].status = "submitted"
        /\ events[e].event_type = "payment_intent.submitted"
        /\ events[e].payload.intent_id = i
        /\ events[e].status \in {"sent", "failed"}
        /\ response.op = "source"
        /\ intents[i].calldata_hex =
              generate_payment_calldata(Vendors[intents[i].vendor_id].wallet_address,
                                        intents[i].amount_usdc_minor,
                                        intents[i].src_chain_id,
                                        intents[i].dest_chain_id, i).calldata

(* Event type of the transition that put an intent in a status *)
TransitionEvent(status) ==
    CASE status = "awaiting_user_tx" -> "payment_intent.created"
      [] status = "submitted" -> "payment_intent.submitted"
      [] status = "settled" -> "payment_intent.settled"
      [] OTHER -> "none"

(* C19: every stored intent of a vendor with a webhook URL has its         *)
(* payment_intent.created event, and the event of the transition that put  *)
(* it in its current status, in webhook_events.                            *)
C19_TransitionStoredWithItsEvent ==
    \A i \in DOMAIN intents :
        Vendors[intents[i].vendor_id].webhook_url # None
           => \A ty \in {"payment_intent.created", TransitionEvent(intents[i].status)} :
                 \E e \in DOMAIN events :
                     /\ events[e].event_type = ty
                     /\ events[e].payload.intent_id = i

(* C20: an attempt that is answered 2xx marks the event sent and raises    *)
(* its stored attempts by exactly one, and no POST is issued for a sent     *)
(* event by a sweep that starts later.                                     *)
C20_SuccessCountsOnceAndStops ==
    [][\A e \in DOMAIN events :
          /\ (events[e].status # "sent" /\ events'[e].status = "sent")
                => events'[e].attempts = events[e].attempts + 1
          /\ (events[e].status = "sent" /\ process_pending_webhooks)
                => http_posts'[e] = http_posts[e]]_vars

(* The call of `method` has returned *)
Returned(method) == call.method = method /\ call.result # Nothing

(* C24: for a chain of the registry and an amount >= 0 the bridge fee is   *)
(* the integer f with f * 10000 <= amount * fee_bps < (f + 1) * 10000, for *)
(* the chain's fee_bps; for a chain that is not in the registry it is 0.   *)
C24_BridgeFeeIsFloorOfBps ==
    Returned("calculate_bridge_fee")
       => LET amount == call.args[1]
              c == call.args[2]
              fee == The(call.result)
          IN IF c \in DOMAIN CHAIN_CONFIGS
             THEN /\ fee * 10000 <= amount * CHAIN_CONFIGS[c].bridge_fee_bps
                  /\ amount * CHAIN_CONFIGS[c].bridge_fee_bps < (fee + 1) * 10000
             ELSE fee = 0

(* the fee of 990000 from chain 84532 was computed: 495 *)
C24_Witness ==
    /\ Returned("calculate_bridge_fee")
    /\ call.args = <<990000, 84532>>
    /\ The(call.result) = 495

(* C25: the selected function is createPayment when the source and the     *)
(* destination chain are equal and bridgePayment when they differ,         *)
(* whatever payment type is requested; the encoder never selects           *)
(* batchPayment.                                                           *)
C25_FunctionFollowsChainsOnly ==
    /\ (Returned("select_optimal_function") /\ call.args[4] = 1)
          => The(call.result) = IF call.args[1] = call.args[2]
                                THEN "createPayment" ELSE "bridgePayment"
    /\ (Returned("generate_payment_calldata") /\ call.result # Some(Nothing))
          => The(The(call.result)).function =
                IF call.args[3] = call.args[4] THEN "createPayment" ELSE "bridgePayment"

(* a same-chain payment requested as a batch payment was encoded as        *)
(* createPayment                                                           *)
C25_Witness ==
    /\ Returned("generate_payment_calldata")
    /\ call.args[3] = call.args[4]
    /\ call.args[6] = "batch"
    /\ call.result # Some(Nothing)
    /\ The(The(call.result)).function = "createPayment"

(* C26: for a source chain of the registry the encoder's bridge_fee is 0   *)
(* when source and destination are equal and floor(amount * fee_bps(src) / *)
(* 10000) otherwise, and the total of its cost breakdown is amount +       *)
(* bridge_fee.                                                             *)
C26_EncoderFeeAndTotal ==
    (Returned("generate_payment_calldata") /\ call.args[3] \in DOMAIN CHAIN_CONFIGS)
       => /\ call.result # Some(Nothing)
          /\ LET out == The(The(call.result))
                 amount == call.args[2]
                 src == call.args[3]
                 dest == call.args[4]
                 bps == CHAIN_CONFIGS[src].bridge_fee_bps
             IN /\ IF src = dest THEN out.bridge_fee = 0
                   ELSE /\ out.bridge_fee * 10000 <= amount * bps
                        /\ amount * bps < (out.bridge_fee + 1) * 10000
                /\ out.estimated_cost.bridge_fee_usdc = out.bridge_fee
                /\ out.estimated_cost.total_amount_usdc = amount + out.bridge_fee

(* 990000 from chain 84532 to chain 8453: fee 495, total 990495 *)
C26_Witness ==
    /\ Returned("generate_payment_calldata")
    /\ call.args[2] = 990000 /\ call.args[3] = 84532 /\ call.args[4] = 8453
    /\ call.result # Some(Nothing)
    /\ The(The(call.result)).bridge_fee = 495
    /\ The(The(call.result)).estimated_cost.total_amount_usdc = 990495

(* C27: validate_chain_support(src, dest) is true exactly when src and     *)
(* dest are both chain ids of the registry.                                *)
C27_ValidPairIffBothInRegistry ==
    Returned("validate_chain_support")
       => (The(call.result) <=> ( /\ call.args[1] \in DOMAIN CHAIN_CONFIGS
                                  /\ call.args[2] \in DOMAIN CHAIN_CONFIGS ))

(* a same-chain pair of a chain of the registry was found valid *)
C27_Witness ==
    /\ Returned("validate_chain_support")
    /\ call.args = <<8453, 8453>>
    /\ The(call.result) = TRUE

(* C21: enqueueing a webhook for a vendor with a webhook URL inserts one   *)
(* event that is pending with attempts 0, max_attempts from the            *)
(* configuration and next_retry_at the time of the call, and the inline    *)
(* attempt that follows reads that row: it read attempts 0 and no result   *)
(* of it is recorded yet.                                                  *)
C21_EnqueuePersistsPendingEvent ==
    [][\A v \in VendorIds :
          (HasWebhookUrl(v) /\ call_send_webhook(v))
             => LET e == event_seq + 1
                IN /\ e \notin DOMAIN events
                   /\ DOMAIN events' = DOMAIN events \cup {e}
                   /\ \A x \in DOMAIN events : events'[x] = events[x]
                   /\ events'[e].status = "pending"
                   /\ events'[e].attempts = 0
                   /\ events'[e].max_attempts = settings.webhook_retry_attempts
                   /\ events'[e].next_retry_at = now
                   /\ events'[e].response_status = NoResponse
                   /\ \A t \in BagToSet(tasks') :
                         t.event = e => t.current_attempts = 0]_vars

(* at a time after start-up an event was enqueued with a configured        *)
(* max_attempts other than the default, and its inline POST is in flight   *)
C21_Witness ==
    \E e \in DOMAIN events :
        /\ now > 0
        /\ settings.webhook_retry_attempts # webhook_retry_attempts
        /\ events[e].status = "pending"
        /\ events[e].attempts = 0
        /\ events[e].next_retry_at = now
        /\ events[e].max_attempts = settings.webhook_retry_attempts
        /\ http_posts[e] = 1
        /\ \E t \in BagToSet(tasks) : t.event = e /\ t.op = "enqueue"

(* C22: send_webhook for a vendor that does not exist or has no webhook    *)
(* URL returns True, inserts no event and issues no POST.                  *)
C22_NoUrlIsSilentSuccess ==
    [][\A v \in VendorIds :
          (~HasWebhookUrl(v) /\ call_send_webhook(v))
             => /\ call'.method = "send_webhook"
                /\ call'.args = <<v>>
                /\ call'.result = Some(Queued(TRUE))
                /\ UNCHANGED <<events, event_seq, http_posts, tasks>>]_vars

(* send_webhook for the vendor that does not exist has returned True and   *)
(* the table of events is empty                                            *)
C22_Witness ==
    /\ call.method = "send_webhook"
    /\ call.args = <<"v_none">>
    /\ call.result = Some(Queued(TRUE))
    /\ events = << >>
    /\ tasks = EmptyBag

(* C28: process_pending_webhooks called when every event is sent, expired  *)
(* or not yet due changes no event, issues no POST and returns 0.          *)
C28_SweepWithNothingDueIsNoOp ==
    [][( /\ \A e \in DOMAIN events : \/ events[e].status \in {"sent", "expired"}
                                      \/ events[e].next_retry_at > now
         /\ call_process_pending_webhooks )
          => /\ UNCHANGED <<events, http_posts, tasks, event_seq>>
             /\ call'.method = "process_pending_webhooks"
             /\ call'.result = Some(Processed(0))]_vars

(* the sweep returned 0 and left alone an event that is sent, after one    *)
(* POST                                                                    *)
C28_Witness ==
    /\ call.method = "process_pending_webhooks"
    /\ call.result = Some(Processed(0))
    /\ tasks = EmptyBag
    /\ \E e \in DOMAIN events : events[e].status = "sent" /\ http_posts[e] = 1

C29_SweepPostsStoredPayload ==
    [][/\ \A e \in DOMAIN events :
             e \in DOMAIN events' /\ events'[e].payload = events[e].payload
       /\ \A t \in BagToSet(tasks') :
             (t.op = "sweep" /\ ~BagIn(t, tasks))
                => /\ t.event \in DOMAIN events
                   /\ t.body = events[t.event].payload]_vars

(* the sweep is posting the created event of an intent whose source        *)
(* transaction has been reported since: the body carries no hash           *)
C29_Witness ==
    \E t \in BagToSet(tasks) :
        /\ t.op = "sweep"
        /\ t.body.event_type = "payment_intent.created"
        /\ t.body.src_tx_hash = None
        /\ t.body.intent_id \in DOMAIN intents
        /\ intents[t.body.intent_id].src_tx_hash # None
        /\ intents[t.body.intent_id].status = "submitted"

(* C30: no operation removes a payment intent: an intent that is in the    *)
(* store before a step is in the store after it, whichever operation the   *)
(* step is, the cleanup of old webhook events included.                    *)
C30_IntentsAreNeverRemoved ==
    [][DOMAIN intents \subseteq DOMAIN intents']_vars

(* the cleanup has just deleted the events of an intent, and the intent,   *)
(* submitted days ago, is still stored                                     *)
C30_Witness ==
    /\ call.method = "cleanup_old_webhook_events"
    /\ The(call.result).deleted_count >= 1
    /\ events = << >>
    /\ \E i \in DOMAIN intents : intents[i].status = "submitted"

(* C31: a cleanup with threshold d deletes exactly the webhook events      *)
(* created before now - d days, whatever their status, leaves every other  *)
(* event as it was and returns the number of events it deleted.            *)
C31_CleanupDeletesExactlyTheOldEvents ==
    [][\A d \in 1..MaxCleanupDays :
          cleanup_old_webhook_events(d)
             => LET old == {e \in DOMAIN events :
                              events[e].created_at + d * SecondsPerDay < now}
                IN /\ DOMAIN events' = DOMAIN events \ old
                   /\ \A e \in DOMAIN events' : events'[e] = events[e]
                   /\ The(call'.result) = Deleted(Cardinality(old))]_vars

(* a cleanup has deleted at least one event and has left in the table an   *)
(* event created within the last day                                       *)
C31_Witness ==
    /\ call.method = "cleanup_old_webhook_events"
    /\ The(call.result).deleted_count >= 1
    /\ \E e \in DOMAIN events : events[e].created_at + SecondsPerDay >= now

(* C32: the calldata returned for an accepted request is "0x", the eight   *)
(* hex characters of the selector and one segment of 64 characters per     *)
(* parameter: 5 segments for createPayment and 6 for bridgePayment,        *)
(* whatever the recipient, the amount, the chains, the bridge address and  *)
(* the payment id.                                                         *)
C32_CalldataLengthIsFixed ==
    Returned("generate_calldata")
       => LET r == The(call.result)
          IN Len(r.calldata) = 10 + 64 * (IF r.function = "createPayment" THEN 5 ELSE 6)

(* Two calls of the calldata endpoint in a row, whatever the other         *)
(* operations did in between (they leave `call` as it is)                  *)
TwoCalldataCalls ==
    /\ call.method = "generate_calldata"
    /\ call'.method = "generate_calldata"

(* C33: two calls with the same recipient, amount, source chain,           *)
(* destination chain and payment id return the same calldata, function     *)
(* name and router address, in any state and in any order relative to the  *)
(* other operations.                                                       *)
C33_SameFiveInputsSameCalldata ==
    [][(TwoCalldataCalls /\ SubSeq(call'.args, 1, 5) = SubSeq(call.args, 1, 5))
          => call'.result = call.result]_vars

(* Calls that agree on the bridge address as well return the same answer:  *)
(* the bridge address is the one further input of the calldata.            *)
SameSixInputsSameCalldata ==
    [][(TwoCalldataCalls /\ call'.args = call.args) => call'.result = call.result]_vars

(* A step in which get_payment_intent returns *)
FetchStep == call' # call /\ call'.method = "get_payment_intent"

(* C34: fetching a payment intent changes no stored state, and what it     *)
(* returns are the field values of the stored row (nothing for an id that  *)
(* is not stored): two fetches of the same intent with no mutation in      *)
(* between return identical values.                                        *)
C34_FetchChangesNothingAndReturnsTheRow ==
    [][FetchStep
          => /\ UNCHANGED <<intents, events, event_seq, tasks, http_posts>>
             /\ LET i == call'.args[1]
                    got == The(call'.result).intent
                IN IF i \notin DOMAIN intents THEN got = Nothing
                   ELSE /\ got # Nothing
                        /\ The(got).intent_id = i
                        /\ The(got).vendor_id = intents[i].vendor_id
                        /\ The(got).product_id = intents[i].product_id
                        /\ The(got).status = intents[i].status
                        /\ The(got).src_tx_hash = intents[i].src_tx_hash
                        /\ The(got).dest_tx_hash = intents[i].dest_tx_hash
                        /\ The(got).router.address = intents[i].router_address
                        /\ The(got).router.function = intents[i].router_function
                        /\ The(got).router.calldata = intents[i].calldata_hex]_vars

(* a settled intent has been fetched: the answer carries both hashes and   *)
(* the row is as it was                                                    *)
C34_Witness ==
    /\ Returned("get_payment_intent")
    /\ The(call.result).intent # Nothing
    /\ LET got == The(The(call.result).intent)
       IN /\ got.status = "settled"
          /\ got.src_tx_hash # None
          /\ got.dest_tx_hash # None
          /\ intents[got.intent_id].status = "settled"

(* C35: once the status of a subscription is cancelled, no call of         *)
(* update_subscription_status makes it active again.                       *)
C35_CancelledNeverActiveAgain ==
    [][\A s \in DOMAIN subscriptions :
          subscriptions[s].status = "cancelled" => subscriptions'[s].status # "active"]_vars

(* C36: when the creation endpoint answers 201, the status in the answer   *)
(* is the status stored for that intent at that moment, also when the      *)
(* promoting UPDATE changed no row.                                        *)
C36_CreatedAnswerHasTheStoredStatus ==
    [][(response' # response /\ response'.op = "create" /\ response'.status_code = 201)
          => LET answered == The(response'.body)
             IN answered.status = intents'[answered.intent_id].status]_vars

(* C37: the webhook_events table holds at most one event of each type for  *)
(* one payment intent, also after a transaction is reported again.         *)
C37_OneEventOfEachTypePerIntent ==
    \A e1, e2 \in DOMAIN events :
        (/\ events[e1].event_type = events[e2].event_type
         /\ parse_payload(events[e1].payload).intent_id = parse_payload(events[e2].payload).intent_id)
            => e1 = e2

(* C38: an intent with status created or awaiting_user_tx has neither     *)
(* transaction hash, an intent with status submitted has its src_tx_hash  *)
(* and an intent with status settled has its dest_tx_hash.                *)
C38_StatusAgreesWithHashes ==
    \A i \in DOMAIN intents :
        /\ intents[i].status \in {"created", "awaiting_user_tx"}
              => intents[i].src_tx_hash = None /\ intents[i].dest_tx_hash = None
        /\ intents[i].status = "submitted" => intents[i].src_tx_hash # None
        /\ intents[i].status = "settled" => intents[i].dest_tx_hash # None

(* an intent was settled by a destination report and then submitted by a   *)
(* source report: it is submitted and has both hashes                      *)
C38_Witness ==
    \E i \in DOMAIN intents :
        /\ intents[i].status = "submitted"
        /\ intents[i].src_tx_hash # None
        /\ intents[i].dest_tx_hash # None

(* The POSTs for event e that have come back: those sent less those some   *)
(* handler is still waiting for.                                           *)
PostsCompleted(posts, waiting, e) ==
    posts[e] - BagCardinality([t \in {x \in BagToSet(waiting) : x.event = e} |-> waiting[t]])

(* C39: the attempts stored for an event are the number of POSTs that have *)
(* completed for it, and they never go down, also when the inline push and *)
(* sweeps work on the event at the same time.                              *)
C39_AttemptsCountCompletedPosts ==
    [][\A e \in DOMAIN events' :
          /\ events'[e].attempts = PostsCompleted(http_posts', tasks', e)
          /\ e \in DOMAIN events => events'[e].attempts >= events[e].attempts]_vars
====
